---- MODULE Spec2Model ----
(***************************************************************************)
(* A model of libvirt_exporter.go: one Collect cycle of the Prometheus     *)
(* exporter for libvirt, as a sequential program with a program counter.   *)
(* The libvirt client and xml.Unmarshal are the environment: each call     *)
(* returns a value or an error chosen from a pool; the calls made and the  *)
(* values returned are recorded in `calls`, the samples sent in `ch`.      *)
(***************************************************************************)
EXTENDS Integers, Sequences, FiniteSets, TLC

\* ------------------------------------------------------------------ bounds
MaxDomains == 2
MaxDisks == 2

\* ------------------------------------------------------- program constants
\* float64(x) / 1e9, libvirt_exporter.go:124
NanosPerSecond == 1000000000

Cycles == {1, 2}
DomainIds == 1 .. MaxDomains

\* A domain handle (virDomainPtr) belongs to the connection that returned it.
Handle(c, id) == <<c, id>>
ConnRef(c) == <<c, 0>>
Handles == Cycles \X DomainIds

\* ----------------------------------------------------- metric descriptors
BlockLabels == <<"domain", "source_file", "target_device">>

libvirtUpDesc == [fqName |-> "libvirt_up", variableLabels |-> <<>>]
libvirtBlockRdBytesDesc ==
    [fqName |-> "libvirt_block_stats_read_bytes_total", variableLabels |-> BlockLabels]
libvirtBlockRdReqDesc ==
    [fqName |-> "libvirt_block_stats_read_requests_total", variableLabels |-> BlockLabels]
libvirtBlockRdTotalTimesDesc ==
    [fqName |-> "libvirt_block_stats_read_seconds_total", variableLabels |-> BlockLabels]
libvirtBlockWrBytesDesc ==
    [fqName |-> "libvirt_block_stats_write_bytes_total", variableLabels |-> BlockLabels]
libvirtBlockWrReqDesc ==
    [fqName |-> "libvirt_block_stats_write_requests_total", variableLabels |-> BlockLabels]
libvirtBlockWrTotalTimesDesc ==
    [fqName |-> "libvirt_block_stats_write_seconds_total", variableLabels |-> BlockLabels]
libvirtBlockFlushReqDesc ==
    [fqName |-> "libvirt_block_stats_flush_requests_total", variableLabels |-> BlockLabels]
libvirtBlockFlushTotalTimesDesc ==
    [fqName |-> "libvirt_block_stats_flush_seconds_total", variableLabels |-> BlockLabels]

\* ------------------------------------------------------------ sample values
\* A float64 sample value is kept as a fraction in lowest terms <<num, den>>.
RECURSIVE GCD(_, _)
GCD(a, b) == IF b = 0 THEN a ELSE GCD(b, a % b)

\* float64(x) of an int64 counter (exact below 2^53)
Float64(x) == <<x, 1>>

\* A time counter sent as it came, in nanoseconds.
Float64Undivided(x, d) == <<x, 1>>

\* float64(x) / 1e9
Float64Div(x, d) == LET g == GCD(x, d) IN IF g = 0 THEN <<0, 1>> ELSE <<x \div g, d \div g>>

\* prometheus.MustNewConstMetric: panics when the number of label values
\* differs from the number of labels the descriptor declares.
MustNewConstMetric(desc, valueType, value, labelValues) ==
    [desc |-> desc.fqName, valueType |-> valueType, value |-> value,
     labels |-> labelValues,
     panic |-> Len(labelValues) # Len(desc.variableLabels)]

\* ------------------------------------------------- the libvirt environment
\* libvirt.DomainBlockStats: eight counters and "Errs", each with a ...Set flag.
StatFields == {"RdBytes", "RdReq", "RdTotalTimes", "WrBytes", "WrReq",
               "WrTotalTimes", "FlushReq", "FlushTotalTimes", "Errs"}

MkStats(S, v) ==
    [RdBytesSet |-> "RdBytes" \in S, RdBytes |-> v.RdBytes,
     RdReqSet |-> "RdReq" \in S, RdReq |-> v.RdReq,
     RdTotalTimesSet |-> "RdTotalTimes" \in S, RdTotalTimes |-> v.RdTotalTimes,
     WrBytesSet |-> "WrBytes" \in S, WrBytes |-> v.WrBytes,
     WrReqSet |-> "WrReq" \in S, WrReq |-> v.WrReq,
     WrTotalTimesSet |-> "WrTotalTimes" \in S, WrTotalTimes |-> v.WrTotalTimes,
     FlushReqSet |-> "FlushReq" \in S, FlushReq |-> v.FlushReq,
     FlushTotalTimesSet |-> "FlushTotalTimes" \in S, FlushTotalTimes |-> v.FlushTotalTimes,
     ErrsSet |-> "Errs" \in S, Errs |-> v.Errs]

RawBusy == [RdBytes |-> 4096, RdReq |-> 7, RdTotalTimes |-> 1500000000,
            WrBytes |-> 2048, WrReq |-> 5, WrTotalTimes |-> 500000000,
            FlushReq |-> 3, FlushTotalTimes |-> 2000000000, Errs |-> 9]
RawFresh == [RdBytes |-> 1024, RdReq |-> 0, RdTotalTimes |-> 0,
             WrBytes |-> 0, WrReq |-> 0, WrTotalTimes |-> 0,
             FlushReq |-> 0, FlushTotalTimes |-> 0, Errs |-> 0]

\* The statistics of disk j of domain id in a fleet: from one disk to the next
\* and one domain to the next, only RdBytes set, every flag set, or only the
\* read time and the flush requests set.
FleetStats(id, j) ==
    CASE (id + j) % 3 = 2 -> MkStats({"RdBytes"}, RawFresh)
      [] (id + j) % 3 = 0 -> MkStats(StatFields, RawBusy)
      [] (id + j) % 3 = 1 -> MkStats({"RdTotalTimes", "FlushReq"}, RawBusy)
\* Every combination of flags, with either set of raw values.
AllStats == {MkStats(S, v) : S \in SUBSET StatFields, v \in {RawBusy, RawFresh}}

DomainNames == <<"vm1", "vm2", "vm3", "vm4">>
SourceFiles == <<"/a.img", "", "/c.img", "/d.img">>
TargetDevices == <<"vda", "vdb", "vdc", "vdd">>

Disk(j) == [Source |-> [File |-> SourceFiles[j]], Target |-> [Device |-> TargetDevices[j]]]

\* The XML document of a domain: well-formed or not, its <devices><disk>
\* elements, and content the exporter does not read.
XmlDoc(k) == [wellFormed |-> TRUE, disks |-> [j \in 1 .. k |-> Disk(j)], os |-> "hvm"]
MalformedDoc == [wellFormed |-> FALSE, disks |-> <<>>, os |-> ""]
NoDoc == [wellFormed |-> FALSE, disks |-> <<>>, os |-> "none"]
Docs(n) == {XmlDoc(k) : k \in 0 .. n} \cup {MalformedDoc}

\* Lists of distinct domains (handles or IDs), of any length and in any order.
Lists(m) ==
    UNION {{s \in [1 .. n -> 1 .. m] : \A a, b \in 1 .. n : a # b => s[a] # s[b]} :
           n \in 0 .. m}

\* What the hypervisor may answer. A "fleet" has up to MaxDomains domains of
\* up to MaxDisks disks, each disk with its own block statistics; a "single"
\* one has one domain with one disk and gives any combination of flags.
\* A "pair" is the hypervisor that two overlapping scrapes talk to: the two
\* domains vm2 and vm1, listed in that order, with one disk each.
StatsPool(h, id, j) == IF h = "single" THEN AllStats ELSE {FleetStats(id, j)}
DocsPool(h) == IF h = "fleet" THEN Docs(MaxDisks) ELSE {XmlDoc(1)}
ListsPool(h) ==
    IF h = "fleet" THEN Lists(MaxDomains)
    ELSE IF h = "pair" THEN {<<2, 1>>}
    ELSE {<<1>>}

\* xml.Unmarshal into libvirt_schema.Domain: only devices/disk is read.
Unmarshal(doc) ==
    IF doc.wellFormed
    THEN [err |-> "nil", desc |-> [Devices |-> [Disks |-> doc.disks]]]
    ELSE [err |-> "ParseError", desc |-> [Devices |-> [Disks |-> <<>>]]]

\* ------------------------------------------------------------------- state
VARIABLES
    hv,          \* the hypervisor at hand: "fleet" or "single"
    loopVarPerIteration, \* the Go toolchain: TRUE from go1.22 (a fresh range
                 \* variable each iteration), FALSE before (one variable per loop)
    pc,          \* pc[c]: where Collect cycle c stands
    conn,        \* conn[c]: [opened, closes] of the cycle's connection
    deferred,    \* deferred[c]: the stack of deferred calls of CollectFromLibvirt
    loopVar,     \* loopVar[c]: the cells of the range variable of lines 196-198
    domains,     \* domains[c]: result of ListAllDomains
    domainIds,   \* domainIds[c]: result of ListDomains
    idx,         \* idx[c]: position of the running range loop
    path,        \* path[c]: "none", "bulk" or "fallback"
    domain,      \* domain[c]: the domain CollectDomain works on (0: none)
    domainName,  \* CollectDomain's locals
    xmlDesc,
    desc,
    diskIdx,
    err,         \* err[c]: the error being returned ("nil": none)
    ch,          \* ch[c]: the samples sent to the channel, in order
    calls,       \* calls[c]: the libvirt calls made, in order, with their results
    logs,        \* logs[c]: the messages given to log.Printf
    acquired,    \* acquired[h]: how often handle h was handed out
    freeCount    \* freeCount[h]: how often Free was called on handle h

vars == <<hv, loopVarPerIteration, pc, conn, deferred, loopVar, domains, domainIds,
          idx, path, domain, domainName, xmlDesc, desc, diskIdx, err, ch, calls,
          logs, acquired, freeCount>>

locals == <<domainName, xmlDesc, desc, diskIdx>>

InitCycle ==
    /\ pc = [c \in Cycles |-> "Collect"]
    /\ conn = [c \in Cycles |-> [opened |-> FALSE, closes |-> 0]]
    /\ deferred = [c \in Cycles |-> <<>>]
    /\ loopVar = [c \in Cycles |-> <<>>]
    /\ domains = [c \in Cycles |-> <<>>]
    /\ domainIds = [c \in Cycles |-> <<>>]
    /\ idx = [c \in Cycles |-> 0]
    /\ path = [c \in Cycles |-> "none"]
    /\ domain = [c \in Cycles |-> 0]
    /\ domainName = [c \in Cycles |-> ""]
    /\ xmlDesc = [c \in Cycles |-> NoDoc]
    /\ desc = [c \in Cycles |-> [Devices |-> [Disks |-> <<>>]]]
    /\ diskIdx = [c \in Cycles |-> 0]
    /\ err = [c \in Cycles |-> "nil"]
    /\ ch = [c \in Cycles |-> <<>>]
    /\ calls = [c \in Cycles |-> <<>>]
    /\ logs = [c \in Cycles |-> <<>>]
    /\ acquired = [h \in Handles |-> 0]
    /\ freeCount = [h \in Handles |-> 0]

Init ==
    /\ hv = "fleet"
    /\ loopVarPerIteration \in BOOLEAN
    /\ InitCycle

\* A call of the libvirt client as recorded: its receiver, argument, error and
\* result, and how many samples the cycle had sent when it was made.
Call(c, op, recv, arg, e, val) ==
    [op |-> op, recv |-> recv, arg |-> arg, err |-> e, val |-> val, sent |-> Len(ch[c])]

\* ------------------------------------------------------- CollectDomain
\* A counter sent whether or not its flag is set.
EmitAlways(flag, sample) == <<sample>>

\* The if blockStats.XSet { ch <- ... } pattern of lines 102-173.
EmitIf(flag, sample) == IF flag THEN <<sample>> ELSE <<>>

\* The source file and the target device taking each other's place.
LabelValuesSwapped(name, disk) == <<name, disk.Target.Device, disk.Source.File>>

\* The label values domainName, disk.Source.File, disk.Target.Device that
\* every MustNewConstMetric call of lines 102-173 is given.
LabelValues(name, disk) == <<name, disk.Source.File, disk.Target.Device>>

\* The samples of one disk, lines 102-173, in the order they are sent.
BlockStatsSamples(blockStats, name, disk) ==
    LET labels == LabelValues(name, disk)
    IN  EmitIf(blockStats.RdBytesSet,
               MustNewConstMetric(libvirtBlockRdBytesDesc, "counter",
                                  Float64(blockStats.RdBytes), labels))
        \o EmitIf(blockStats.RdReqSet,
               MustNewConstMetric(libvirtBlockRdReqDesc, "counter",
                                  Float64(blockStats.RdReq), labels))
        \o EmitIf(blockStats.RdTotalTimesSet,
               MustNewConstMetric(libvirtBlockRdTotalTimesDesc, "counter",
                                  Float64Div(blockStats.RdTotalTimes, NanosPerSecond), labels))
        \o EmitIf(blockStats.WrBytesSet,
               MustNewConstMetric(libvirtBlockWrBytesDesc, "counter",
                                  Float64(blockStats.WrBytes), labels))
        \o EmitIf(blockStats.WrReqSet,
               MustNewConstMetric(libvirtBlockWrReqDesc, "counter",
                                  Float64(blockStats.WrReq), labels))
        \o EmitIf(blockStats.WrTotalTimesSet,
               MustNewConstMetric(libvirtBlockWrTotalTimesDesc, "counter",
                                  Float64Div(blockStats.WrTotalTimes, NanosPerSecond), labels))
        \o EmitIf(blockStats.FlushReqSet,
               MustNewConstMetric(libvirtBlockFlushReqDesc, "counter",
                                  Float64(blockStats.FlushReq), labels))
        \o EmitIf(blockStats.FlushTotalTimesSet,
               MustNewConstMetric(libvirtBlockFlushTotalTimesDesc, "counter",
                                  Float64Div(blockStats.FlushTotalTimes, NanosPerSecond), labels))

\* Only the first disk reported.
DisksOfFirstOnly(d) == IF d.Devices.Disks = <<>> THEN <<>> ELSE <<d.Devices.Disks[1]>>

\* for _, disk := range desc.Devices.Disks, line 97
DisksOf(d) == d.Devices.Disks

\* An error that is not looked at.
ErrorIgnored(e) == FALSE

\* if err != nil { return err } after BlockStats, line 99
BlockStatsFails(e) == e # "nil"

\* The loop over the domains going on after a failed CollectDomain.
CollectErrorIgnored(e) == FALSE

\* if err != nil { return err } after CollectDomain, lines 201 and 215
CollectDomainFails(e) == e # "nil"

\* The error looked at before the handle is freed: a failed CollectDomain
\* returns with the handle still held.
FreeOnSuccessOnly(e) == IF e = "nil" THEN "Free" ELSE "Return"

\* err = CollectDomain(ch, &domain); domain.Free(), lines 213-214: the handle
\* is freed before the error is looked at.
AfterCollectPc(e) == "Free"

\* CollectDomain returns e to CollectFromLibvirt: line 200-203 in the bulk
\* loop, line 213 (followed by domain.Free()) in the fallback loop.
ReturnFromCollectDomain(c, e) ==
    /\ err' = [err EXCEPT ![c] = e]
    /\ domainName' = [domainName EXCEPT ![c] = ""]
    /\ xmlDesc' = [xmlDesc EXCEPT ![c] = NoDoc]
    /\ desc' = [desc EXCEPT ![c] = [Devices |-> [Disks |-> <<>>]]]
    /\ diskIdx' = [diskIdx EXCEPT ![c] = 0]
    /\ IF path[c] = "bulk"
       THEN /\ pc' = [pc EXCEPT ![c] = IF CollectDomainFails(e) THEN "Return" ELSE "BulkLoop"]
            /\ idx' = [idx EXCEPT ![c] = IF CollectDomainFails(e) THEN @ ELSE @ + 1]
       ELSE /\ pc' = [pc EXCEPT ![c] = AfterCollectPc(e)]
            /\ idx' = idx

GetName(c) ==
    /\ pc[c] = "GetName"
    /\ \E e \in {"nil", "NameError"} :
         LET name == IF e = "nil" THEN DomainNames[domain[c]] ELSE ""
         IN  /\ calls' = [calls EXCEPT ![c] =
                    Append(@, Call(c, "GetName", Handle(c, domain[c]), "", e, name))]
             /\ IF e # "nil"
                THEN ReturnFromCollectDomain(c, e)
                ELSE /\ domainName' = [domainName EXCEPT ![c] = name]
                     /\ pc' = [pc EXCEPT ![c] = "GetXMLDesc"]
                     /\ UNCHANGED <<err, idx, xmlDesc, desc, diskIdx>>
    /\ UNCHANGED <<hv, loopVarPerIteration, conn, deferred, loopVar, domains, domainIds,
                   path, domain, ch, logs, acquired, freeCount>>

GetXMLDesc(c) ==
    /\ pc[c] = "GetXMLDesc"
    /\ \E e \in {"nil", "XMLDescError"} :
       \E doc \in IF e = "nil" THEN DocsPool(hv) ELSE {NoDoc} :
         /\ calls' = [calls EXCEPT ![c] =
                Append(@, Call(c, "GetXMLDesc", Handle(c, domain[c]), 0, e, doc))]
         /\ IF e # "nil"
            THEN ReturnFromCollectDomain(c, e)
            ELSE /\ xmlDesc' = [xmlDesc EXCEPT ![c] = doc]
                 /\ pc' = [pc EXCEPT ![c] = "Unmarshal"]
                 /\ UNCHANGED <<err, idx, domainName, desc, diskIdx>>
    /\ UNCHANGED <<hv, loopVarPerIteration, conn, deferred, loopVar, domains, domainIds,
                   path, domain, ch, logs, acquired, freeCount>>

\* err = xml.Unmarshal([]byte(xmlDesc), &desc), lines 90-94
ParseDesc(c) ==
    /\ pc[c] = "Unmarshal"
    /\ LET r == Unmarshal(xmlDesc[c])
       IN  IF r.err # "nil"
           THEN ReturnFromCollectDomain(c, r.err)
           ELSE /\ desc' = [desc EXCEPT ![c] = r.desc]
                /\ diskIdx' = [diskIdx EXCEPT ![c] = 1]
                /\ pc' = [pc EXCEPT ![c] = "DiskLoop"]
                /\ UNCHANGED <<err, idx, domainName, xmlDesc>>
    /\ UNCHANGED <<hv, loopVarPerIteration, conn, deferred, loopVar, domains, domainIds,
                   path, domain, ch, calls, logs, acquired, freeCount>>

\* One iteration of the loop over the disks, lines 97-176, or its end (line 178).
BlockStats(c) ==
    /\ pc[c] = "DiskLoop"
    /\ IF diskIdx[c] <= Len(DisksOf(desc[c]))
       THEN LET disk == DisksOf(desc[c])[diskIdx[c]]
            IN  \E e \in {"nil", "BlockStatsError"} :
                \E st \in IF e = "nil" THEN StatsPool(hv, domain[c], diskIdx[c]) ELSE {MkStats({}, RawFresh)} :
                  /\ calls' = [calls EXCEPT ![c] =
                         Append(@, Call(c, "BlockStats", Handle(c, domain[c]),
                                        disk.Target.Device, e, st))]
                  /\ IF BlockStatsFails(e)
                     THEN /\ ReturnFromCollectDomain(c, e)
                          /\ UNCHANGED ch
                     ELSE LET samples == BlockStatsSamples(st, domainName[c], disk)
                          IN  /\ ch' = [ch EXCEPT ![c] = @ \o samples]
                              /\ diskIdx' = [diskIdx EXCEPT ![c] = @ + 1]
                              /\ pc' = [pc EXCEPT ![c] =
                                     IF \E k \in 1 .. Len(samples) : samples[k].panic
                                     THEN "Panic" ELSE "DiskLoop"]
                              /\ UNCHANGED <<err, idx, domainName, xmlDesc, desc>>
       ELSE /\ ReturnFromCollectDomain(c, "nil")
            /\ UNCHANGED <<ch, calls>>
    /\ UNCHANGED <<hv, loopVarPerIteration, conn, deferred, loopVar, domains, domainIds,
                   path, domain, logs, acquired, freeCount>>

\* ------------------------------------------------------ CollectFromLibvirt
\* The error of NewConnect not looked at.
ConnectErrorIgnored(e) == FALSE

\* if err != nil { return err } after libvirt.NewConnect, line 185
ConnectFails(e) == e # "nil"

\* The connection left open: no deferred Close.
DeferConnCloseDropped(stack) == stack

\* defer conn.Close(), line 188
DeferConnClose(stack) == Append(stack, [fn |-> "Close", cell |-> 0])

\* The handles of the bulk listing never freed: no deferred Free.
DeferDomainFreeDropped(stack, cell) == stack

\* defer domain.Free(), line 197: Free has a pointer receiver, so the deferred
\* call keeps the address of the range variable, not the handle in it.
DeferDomainFree(stack, cell) == Append(stack, [fn |-> "Free", cell |-> cell])

\* The variable `domain` of the loop of line 196 at iteration i: one variable
\* for the whole loop, or one per iteration from go1.22.
LoopVarCell(perIteration, i) == IF perIteration THEN i ELSE 1

WriteCell(mem, k, v) == IF k <= Len(mem) THEN [mem EXCEPT ![k] = v] ELSE Append(mem, v)

\* The IDs listed whatever the bulk listing answered.
FallsBackAlways(e) == TRUE

\* The fallback taken on the "unsupported" error alone.
FallsBackOnNoSupport(e) == e = "NoSupport"

\* if err == nil { ... } else { ... }, lines 195 and 205: any error of
\* ListAllDomains leads to the fallback.
FallsBack(e) == e # "nil"

\* A failed lookup ending the loop.
AfterLookupPcAbort(e) == IF e = "nil" THEN "GetName" ELSE "Return"

\* if err == nil { ... } after LookupDomainById, line 212: a failed lookup
\* goes on with the next ID.
AfterLookupPc(e) == IF e = "nil" THEN "GetName" ELSE "FallbackLoop"

\* err := CollectFromLibvirt(ch, e.uri); conn, err := libvirt.NewConnect(uri)
NewConnect(c) ==
    /\ pc[c] = "Collect"
    /\ \E e \in {"nil", "ConnectionError"} :
         /\ calls' = [calls EXCEPT ![c] =
                Append(@, Call(c, "NewConnect", ConnRef(c), "qemu:///system", e, 0))]
         /\ IF ConnectFails(e)
            THEN /\ err' = [err EXCEPT ![c] = e]
                 /\ pc' = [pc EXCEPT ![c] = "Return"]
                 /\ UNCHANGED <<conn, deferred>>
            ELSE /\ conn' = [conn EXCEPT ![c].opened = (e = "nil")]
                 /\ deferred' = [deferred EXCEPT ![c] = DeferConnClose(@)]
                 /\ pc' = [pc EXCEPT ![c] = "ListAllDomains"]
                 /\ UNCHANGED err
    /\ UNCHANGED <<hv, loopVarPerIteration, loopVar, domains, domainIds, idx, path,
                   domain, locals, ch, logs, acquired, freeCount>>

\* domains, err := conn.ListAllDomains(libvirt.CONNECT_LIST_DOMAINS_ACTIVE)
ListAllDomains(c) ==
    /\ pc[c] = "ListAllDomains"
    /\ \E e \in {"nil", "NoSupport", "ConnectionLost"} :
       \E ds \in IF e = "nil" THEN ListsPool(hv) ELSE {<<>>} :
         /\ calls' = [calls EXCEPT ![c] =
                Append(@, Call(c, "ListAllDomains", ConnRef(c), 0, e, ds))]
         /\ domains' = [domains EXCEPT ![c] = ds]
         /\ acquired' = [h \in Handles |->
                IF \E k \in 1 .. Len(ds) : h = Handle(c, ds[k])
                THEN acquired[h] + 1 ELSE acquired[h]]
         /\ IF FallsBack(e)
            THEN /\ path' = [path EXCEPT ![c] = "fallback"]
                 /\ pc' = [pc EXCEPT ![c] = "ListDomains"]
                 /\ UNCHANGED idx
            ELSE /\ path' = [path EXCEPT ![c] = "bulk"]
                 /\ pc' = [pc EXCEPT ![c] = "DeferLoop"]
                 /\ idx' = [idx EXCEPT ![c] = 1]
    /\ UNCHANGED <<hv, loopVarPerIteration, conn, deferred, loopVar, domainIds,
                   domain, locals, err, ch, logs, freeCount>>

\* A loop that walks its list from the end.
RangeBackwards(list, i) == list[Len(list) + 1 - i]

\* for _, x := range list, lines 196, 199 and 210: the element of iteration i.
RangeAt(list, i) == list[i]

\* for _, domain := range domains { defer domain.Free() }, lines 196-198
DeferLoop(c) ==
    /\ pc[c] = "DeferLoop"
    /\ IF idx[c] <= Len(domains[c])
       THEN LET cell == LoopVarCell(loopVarPerIteration, idx[c])
            IN  /\ loopVar' = [loopVar EXCEPT ![c] = WriteCell(@, cell, RangeAt(domains[c], idx[c]))]
                /\ deferred' = [deferred EXCEPT ![c] = DeferDomainFree(@, cell)]
                /\ idx' = [idx EXCEPT ![c] = @ + 1]
                /\ UNCHANGED pc
       ELSE /\ pc' = [pc EXCEPT ![c] = "BulkLoop"]
            /\ idx' = [idx EXCEPT ![c] = 1]
            /\ UNCHANGED <<loopVar, deferred>>
    /\ UNCHANGED <<hv, loopVarPerIteration, conn, domains, domainIds, path,
                   domain, locals, err, ch, calls, logs, acquired, freeCount>>

\* for _, domain := range domains { err = CollectDomain(ch, &domain) ... }
BulkLoop(c) ==
    /\ pc[c] = "BulkLoop"
    /\ IF idx[c] <= Len(domains[c])
       THEN /\ domain' = [domain EXCEPT ![c] = RangeAt(domains[c], idx[c])]
            /\ pc' = [pc EXCEPT ![c] = "GetName"]
       ELSE /\ pc' = [pc EXCEPT ![c] = "Return"]
            /\ UNCHANGED domain
    /\ UNCHANGED <<hv, loopVarPerIteration, conn, deferred, loopVar, domains, domainIds,
                   idx, path, locals, err, ch, calls, logs, acquired, freeCount>>

\* The error of ListDomains not looked at.
ListErrorIgnored(e) == FALSE

\* if err != nil { return err } after conn.ListDomains(), lines 207-209
ListDomainsFails(e) == e # "nil"

\* domainIds, err := conn.ListDomains(), lines 206-209
ListDomains(c) ==
    /\ pc[c] = "ListDomains"
    /\ \E e \in {"nil", "ListDomainsError"} :
       \E ids \in IF e = "nil" THEN ListsPool(hv) ELSE {<<>>} :
         /\ calls' = [calls EXCEPT ![c] =
                Append(@, Call(c, "ListDomains", ConnRef(c), 0, e, ids))]
         /\ IF ListDomainsFails(e)
            THEN /\ err' = [err EXCEPT ![c] = e]
                 /\ pc' = [pc EXCEPT ![c] = "Return"]
                 /\ UNCHANGED <<domainIds, idx>>
            ELSE /\ domainIds' = [domainIds EXCEPT ![c] = ids]
                 /\ idx' = [idx EXCEPT ![c] = 1]
                 /\ pc' = [pc EXCEPT ![c] = "FallbackLoop"]
                 /\ UNCHANGED err
    /\ UNCHANGED <<hv, loopVarPerIteration, conn, deferred, loopVar, domains, path,
                   domain, locals, ch, logs, acquired, freeCount>>

\* for _, id := range domainIds { domain, err := conn.LookupDomainById(id) ... }
LookupDomainById(c) ==
    /\ pc[c] = "FallbackLoop"
    /\ IF idx[c] <= Len(domainIds[c])
       THEN LET id == RangeAt(domainIds[c], idx[c])
            IN  \E e \in {"nil", "LookupError"} :
                  /\ calls' = [calls EXCEPT ![c] =
                         Append(@, Call(c, "LookupDomainById", ConnRef(c), id, e,
                                        IF e = "nil" THEN id ELSE 0))]
                  /\ acquired' = [acquired EXCEPT ![Handle(c, id)] =
                         IF e = "nil" THEN @ + 1 ELSE @]
                  /\ domain' = [domain EXCEPT ![c] = IF e = "nil" THEN id ELSE @]
                  /\ pc' = [pc EXCEPT ![c] = AfterLookupPc(e)]
                  /\ idx' = [idx EXCEPT ![c] =
                         IF AfterLookupPc(e) = "FallbackLoop" THEN @ + 1 ELSE @]
       ELSE /\ pc' = [pc EXCEPT ![c] = "Return"]
            /\ UNCHANGED <<calls, acquired, domain, idx>>
    /\ UNCHANGED <<hv, loopVarPerIteration, conn, deferred, loopVar, domains, domainIds,
                   path, locals, err, ch, logs, freeCount>>

\* domain.Free(); if err != nil { return err }, lines 214-217
Free(c) ==
    /\ pc[c] = "Free"
    /\ calls' = [calls EXCEPT ![c] = Append(@, Call(c, "Free", Handle(c, domain[c]), 0, "nil", 0))]
    /\ freeCount' = [freeCount EXCEPT ![Handle(c, domain[c])] = @ + 1]
    /\ IF CollectDomainFails(err[c])
       THEN /\ pc' = [pc EXCEPT ![c] = "Return"]
            /\ UNCHANGED idx
       ELSE /\ pc' = [pc EXCEPT ![c] = "FallbackLoop"]
            /\ idx' = [idx EXCEPT ![c] = @ + 1]
    /\ UNCHANGED <<hv, loopVarPerIteration, conn, deferred, loopVar, domains, domainIds,
                   path, domain, locals, err, ch, logs, acquired>>

\* The deferred calls run first deferred first: the Close before the Frees.
RECURSIVE RunStackFifo(_, _, _)
RunStackFifo(c, stack, mem) ==
    IF stack = <<>> THEN <<>>
    ELSE LET first == stack[1]
             call == IF first.fn = "Close"
                     THEN Call(c, "Close", ConnRef(c), 0, "nil", 0)
                     ELSE Call(c, "Free", Handle(c, mem[first.cell]), 0, "nil", 0)
         IN  <<call>> \o RunStackFifo(c, Tail(stack), mem)

\* Running the deferred calls, last deferred first: Close on the connection, or
\* Free on the handle that the referenced range variable holds now.
RECURSIVE RunStack(_, _, _)
RunStack(c, stack, mem) ==
    IF stack = <<>> THEN <<>>
    ELSE LET top == stack[Len(stack)]
             call == IF top.fn = "Close"
                     THEN Call(c, "Close", ConnRef(c), 0, "nil", 0)
                     ELSE Call(c, "Free", Handle(c, mem[top.cell]), 0, "nil", 0)
         IN  <<call>> \o RunStack(c, SubSeq(stack, 1, Len(stack) - 1), mem)

CountCalls(s, op, recv) == Cardinality({k \in 1 .. Len(s) : s[k].op = op /\ s[k].recv = recv})

\* CollectFromLibvirt returns (lines 186, 202, 208, 216, 222): its deferred
\* calls run.
RunDeferred(c) ==
    /\ pc[c] = "Return"
    /\ LET ran == RunStack(c, deferred[c], loopVar[c])
       IN  /\ calls' = [calls EXCEPT ![c] = @ \o ran]
           /\ conn' = [conn EXCEPT ![c].closes = @ + CountCalls(ran, "Close", ConnRef(c))]
           /\ freeCount' = [h \in Handles |-> freeCount[h] + CountCalls(ran, "Free", h)]
    /\ deferred' = [deferred EXCEPT ![c] = <<>>]
    /\ pc' = [pc EXCEPT ![c] = "Emit"]
    /\ UNCHANGED <<hv, loopVarPerIteration, loopVar, domains, domainIds, idx, path,
                   domain, locals, err, ch, logs, acquired>>

\* ------------------------------------------------------------------ Collect
\* The gauge reporting success whatever happened.
UpValueAlwaysOne(e) == 1

\* 1.0 when err == nil, 0.0 otherwise, lines 254-265
UpValue(e) == IF e = "nil" THEN 1 ELSE 0

\* The rest of Collect, lines 254-265.
EmitUp(c) ==
    /\ pc[c] = "Emit"
    /\ LET up == MustNewConstMetric(libvirtUpDesc, "gauge", Float64(UpValue(err[c])), <<>>)
       IN  /\ ch' = [ch EXCEPT ![c] = Append(@, up)]
           /\ pc' = [pc EXCEPT ![c] = IF up.panic THEN "Panic" ELSE "Done"]
    /\ logs' = [logs EXCEPT ![c] =
           IF err[c] = "nil" THEN @ ELSE Append(@, <<"Failed to scrape metrics: %s", err[c]>>)]
    /\ UNCHANGED <<hv, loopVarPerIteration, conn, deferred, loopVar, domains, domainIds,
                   idx, path, domain, locals, err, calls, acquired, freeCount>>

\* ------------------------------------------------------------ specification
Step(c) ==
    \/ NewConnect(c)
    \/ ListAllDomains(c)
    \/ DeferLoop(c)
    \/ BulkLoop(c)
    \/ ListDomains(c)
    \/ LookupDomainById(c)
    \/ Free(c)
    \/ GetName(c)
    \/ GetXMLDesc(c)
    \/ ParseDesc(c)
    \/ BlockStats(c)
    \/ RunDeferred(c)
    \/ EmitUp(c)

\* One scrape at a time: Spec runs the first cycle alone.
Solo == CHOOSE c \in Cycles : \A d \in Cycles : c <= d

Next == Step(Solo)

Spec == Init /\ [][Next]_vars

\* The stats mapping on every combination of flags: one domain with one disk.
InitStats ==
    /\ hv = "single"
    /\ loopVarPerIteration \in BOOLEAN
    /\ InitCycle

SpecStats == InitStats /\ [][Next]_vars

\* Two scrapes overlapping: Collect is called by the registry for each HTTP
\* request, so a second call may start while the first is still running, and
\* their steps interleave in any order.
InitTwo ==
    /\ hv = "pair"
    /\ loopVarPerIteration \in BOOLEAN
    /\ InitCycle

NextTwo == \E c \in Cycles : Step(c)

SpecTwo == InitTwo /\ [][NextTwo]_vars

\* ================================================================ properties
\* What the properties read off the record of calls and the channel.
Done(c) == pc[c] = "Done"

CallAt(c, k, op) == k \in 1 .. Len(calls[c]) /\ calls[c][k].op = op
Failed(c, k) == calls[c][k].err # "nil"

CallsOf(c, op) == {k \in 1 .. Len(calls[c]) : calls[c][k].op = op}
CallsOn(c, op, recv) == {k \in CallsOf(c, op) : calls[c][k].recv = recv}

UpSamples(c) == {k \in 1 .. Len(ch[c]) : ch[c][k].desc = "libvirt_up"}
BlockSamples(c) == {k \in 1 .. Len(ch[c]) : ch[c][k].desc # "libvirt_up"}
IsUp(s, v) ==
    /\ s.desc = "libvirt_up"
    /\ s.valueType = "gauge"
    /\ s.value = <<v, 1>>
    /\ s.labels = <<>>

\* The connection was opened: NewConnect returned without error.
Opened(c) == \E k \in CallsOf(c, "NewConnect") : ~Failed(c, k)

\* An error that CollectFromLibvirt returns: a failed NewConnect, ListDomains,
\* GetName, GetXMLDesc or BlockStats, or a descriptor that does not parse.
Unparsable(c, k) == CallAt(c, k, "GetXMLDesc") /\ ~Failed(c, k) /\ ~calls[c][k].val.wellFormed
DomainFailure(c, k) ==
    \/ calls[c][k].op \in {"GetName", "GetXMLDesc", "BlockStats"} /\ Failed(c, k)
    \/ Unparsable(c, k)
PipelineFailure(c, k) ==
    \/ calls[c][k].op \in {"NewConnect", "ListDomains"} /\ Failed(c, k)
    \/ DomainFailure(c, k)
PipelineFailed(c) == \E k \in 1 .. Len(calls[c]) : PipelineFailure(c, k)

\* C1: when Collect has returned, every domain handle that was acquired has
\* received exactly one Free call.
C1_EveryHandleFreedOnce ==
    \A c \in Cycles : Done(c) =>
        \A h \in Handles : acquired[h] >= 1 => Cardinality(CallsOn(c, "Free", h)) = 1

\* C2: a connection is never closed twice, and once CollectFromLibvirt has
\* returned, a connection that was opened has been closed exactly once.
C2_ConnClosedOnce ==
    \A c \in Cycles :
        /\ Cardinality(CallsOn(c, "Close", ConnRef(c))) <= 1
        /\ conn[c].closes = Cardinality(CallsOn(c, "Close", ConnRef(c)))
        /\ (pc[c] \in {"Emit", "Done"} /\ Opened(c))
              => Cardinality(CallsOn(c, "Close", ConnRef(c))) = 1
        /\ ~Opened(c) => CallsOn(c, "Close", ConnRef(c)) = {}

C2_Witness ==
    \E c \in Cycles :
        /\ Done(c) /\ Opened(c)
        /\ \E k \in CallsOf(c, "BlockStats") : Failed(c, k)
        /\ Cardinality(CallsOn(c, "Close", ConnRef(c))) = 1

\* C3: Collect never panics and sends at most one libvirt_up sample; when it
\* has returned it has sent exactly one, the last sample, of value 1 if no
\* error was returned by CollectFromLibvirt and 0 otherwise, and an error was
\* returned exactly when a call of the pipeline failed or a descriptor did not
\* parse.
C3_UpOnceAndTruthful ==
    \A c \in Cycles :
        /\ pc[c] # "Panic"
        /\ Cardinality(UpSamples(c)) <= 1
        /\ ~Done(c) => UpSamples(c) = {}
        /\ Done(c) =>
              /\ UpSamples(c) = {Len(ch[c])}
              /\ IsUp(ch[c][Len(ch[c])], IF PipelineFailed(c) THEN 0 ELSE 1)
              /\ (err[c] # "nil") = PipelineFailed(c)
              /\ Len(logs[c]) = IF PipelineFailed(c) THEN 1 ELSE 0

C3_Witness ==
    \E c \in Cycles :
        /\ Done(c)
        /\ \E k \in 1 .. Len(calls[c]) : Unparsable(c, k)
        /\ IsUp(ch[c][Len(ch[c])], 0)
        /\ Len(ch[c]) >= 2

RECURSIVE LookedUp(_), LookedUpOk(_), Collected(_)
LookedUp(s) ==
    IF s = <<>> THEN <<>>
    ELSE (IF Head(s).op = "LookupDomainById" THEN <<Head(s).arg>> ELSE <<>>)
         \o LookedUp(Tail(s))
LookedUpOk(s) ==
    IF s = <<>> THEN <<>>
    ELSE (IF Head(s).op = "LookupDomainById" /\ Head(s).err = "nil"
          THEN <<Head(s).arg>> ELSE <<>>)
         \o LookedUpOk(Tail(s))
Collected(s) ==
    IF s = <<>> THEN <<>>
    ELSE (IF Head(s).op = "GetName" THEN <<Head(s).recv[2]>> ELSE <<>>)
         \o Collected(Tail(s))

IsPrefix(s, t) == Len(s) <= Len(t) /\ SubSeq(t, 1, Len(s)) = s

\* The list of IDs that ListDomains returned.
ListedIds(c) == LET k == CHOOSE k \in CallsOf(c, "ListDomains") : TRUE IN calls[c][k].val

\* C5: in the fallback path the IDs are looked up in the order of the list;
\* CollectDomain runs on exactly the IDs whose lookup succeeded, in that
\* order; and when nothing but lookups failed, every listed ID was looked up
\* and the cycle ends with libvirt_up = 1.
C5_FailedLookupsSkipped ==
    \A c \in Cycles :
        (\E k \in CallsOf(c, "ListDomains") : ~Failed(c, k)) =>
            /\ IsPrefix(LookedUp(calls[c]), ListedIds(c))
            /\ IsPrefix(Collected(calls[c]), LookedUpOk(calls[c]))
            /\ Len(LookedUpOk(calls[c])) - Len(Collected(calls[c])) =
                   IF pc[c] = "GetName" THEN 1 ELSE 0
            /\ (pc[c] \in {"Return", "Emit", "Done"} /\ ~PipelineFailed(c)) =>
                   /\ LookedUp(calls[c]) = ListedIds(c)
                   /\ Collected(calls[c]) = LookedUpOk(calls[c])
                   /\ err[c] = "nil"
            /\ (Done(c) /\ ~PipelineFailed(c)) => IsUp(ch[c][Len(ch[c])], 1)

C5_Witness ==
    \E c \in Cycles :
        /\ Done(c)
        /\ \E k \in CallsOf(c, "ListDomains") : ~Failed(c, k) /\ Len(calls[c][k].val) = 2
        /\ \E k \in CallsOf(c, "LookupDomainById") :
              /\ Failed(c, k)
              /\ \E j \in CallsOf(c, "BlockStats") : j > k /\ ~Failed(c, j)
        /\ IsUp(ch[c][Len(ch[c])], 1)

\* A call that asks the hypervisor something (Free and Close release).
IsQuery(c, k) ==
    calls[c][k].op \in {"ListAllDomains", "ListDomains", "LookupDomainById",
                        "GetName", "GetXMLDesc", "BlockStats"}

\* C6: after a failed GetName, GetXMLDesc or BlockStats, or a descriptor that
\* does not parse, on either path, nothing more is asked of the hypervisor (no
\* BlockStats of a later disk, no lookup or collection of a later domain), and
\* the cycle ends with libvirt_up = 0.
C6_FailFast ==
    \A c \in Cycles :
        \A k \in 1 .. Len(calls[c]) :
            DomainFailure(c, k) =>
                /\ \A j \in 1 .. Len(calls[c]) : j > k => ~IsQuery(c, j)
                /\ pc[c] \in {"Unmarshal", "Free", "Return", "Emit", "Done"}
                /\ Done(c) => IsUp(ch[c][Len(ch[c])], 0)

\* A BlockStats failure on the first of two disks of the first of two domains.
C6_Witness ==
    \E c \in Cycles :
        /\ Done(c)
        /\ \E k \in CallsOf(c, "BlockStats") :
              /\ Failed(c, k)
              /\ calls[c][k].arg = "vda"
              /\ CallAt(c, k - 1, "GetXMLDesc") /\ Len(calls[c][k - 1].val.disks) = 2
              /\ Cardinality(CallsOf(c, "GetName")) = 1
        /\ \/ \E k \in CallsOf(c, "ListAllDomains") : Len(calls[c][k].val) = 2
           \/ \E k \in CallsOf(c, "ListDomains") : Len(calls[c][k].val) = 2

\* The eight counters of a DomainBlockStats that have a metric: the flag, the
\* raw field, the metric and how many raw units make one unit of the metric.
Counters ==
    << [flag |-> "RdBytesSet", raw |-> "RdBytes", per |-> 1,
        desc |-> "libvirt_block_stats_read_bytes_total"],
       [flag |-> "RdReqSet", raw |-> "RdReq", per |-> 1,
        desc |-> "libvirt_block_stats_read_requests_total"],
       [flag |-> "RdTotalTimesSet", raw |-> "RdTotalTimes", per |-> 1000000000,
        desc |-> "libvirt_block_stats_read_seconds_total"],
       [flag |-> "WrBytesSet", raw |-> "WrBytes", per |-> 1,
        desc |-> "libvirt_block_stats_write_bytes_total"],
       [flag |-> "WrReqSet", raw |-> "WrReq", per |-> 1,
        desc |-> "libvirt_block_stats_write_requests_total"],
       [flag |-> "WrTotalTimesSet", raw |-> "WrTotalTimes", per |-> 1000000000,
        desc |-> "libvirt_block_stats_write_seconds_total"],
       [flag |-> "FlushReqSet", raw |-> "FlushReq", per |-> 1,
        desc |-> "libvirt_block_stats_flush_requests_total"],
       [flag |-> "FlushTotalTimesSet", raw |-> "FlushTotalTimes", per |-> 1000000000,
        desc |-> "libvirt_block_stats_flush_seconds_total"] >>

\* The fraction v is raw / per.
ValueIs(v, raw, per) == v[2] >= 1 /\ per % v[2] = 0 /\ v[1] * (per \div v[2]) = raw

\* The name GetName gave for handle h.
NameGiven(c, h) ==
    LET k == CHOOSE k \in CallsOn(c, "GetName", h) : TRUE IN calls[c][k].val

\* The samples of metric x sent with the labels of domain `name`, device dev.
SamplesFor(c, x, name, dev) ==
    {i \in 1 .. Len(ch[c]) :
        /\ ch[c][i].desc = Counters[x].desc
        /\ ch[c][i].labels[1] = name
        /\ ch[c][i].labels[3] = dev}

\* C7: for every BlockStats query that succeeded and each of the eight
\* counters, one sample of that counter's metric is sent for the disk when the
\* counter's flag is set and none when it is not; every other sample is the
\* libvirt_up gauge, so "Errs" is never sent.
C7_SampleIffFlag ==
    \A c \in Cycles :
        /\ \A k \in CallsOf(c, "BlockStats") :
              ~Failed(c, k) =>
                 \A x \in 1 .. Len(Counters) :
                    Cardinality(SamplesFor(c, x, NameGiven(c, calls[c][k].recv),
                                           calls[c][k].arg))
                       = IF calls[c][k].val[Counters[x].flag] THEN 1 ELSE 0
        /\ \A i \in BlockSamples(c) :
              /\ \E x \in 1 .. Len(Counters) : ch[c][i].desc = Counters[x].desc
              /\ \E k \in CallsOf(c, "BlockStats") :
                    ~Failed(c, k) /\ calls[c][k].arg = ch[c][i].labels[3]
        /\ Cardinality(BlockSamples(c)) <= Len(Counters) * Cardinality(CallsOf(c, "BlockStats"))

\* Flags set for read time, write requests (a raw count of 0) and "Errs" only.
C7_Witness ==
    \E c \in Cycles :
        /\ Done(c)
        /\ \E k \in CallsOf(c, "BlockStats") :
              /\ ~Failed(c, k)
              /\ calls[c][k].val.ErrsSet /\ calls[c][k].val.RdTotalTimesSet
              /\ calls[c][k].val.WrReqSet /\ calls[c][k].val.WrReq = 0
              /\ ~calls[c][k].val.RdBytesSet /\ ~calls[c][k].val.RdReqSet
              /\ ~calls[c][k].val.WrBytesSet /\ ~calls[c][k].val.WrTotalTimesSet
              /\ ~calls[c][k].val.FlushReqSet /\ ~calls[c][k].val.FlushTotalTimesSet
        /\ Len(ch[c]) = 3

\* How many samples the successful BlockStats queries before call k stand for.
FlagsSetBefore(c, k) ==
    Cardinality({jx \in (1 .. k) \X (1 .. Len(Counters)) :
        /\ CallAt(c, jx[1], "BlockStats")
        /\ ~Failed(c, jx[1])
        /\ calls[c][jx[1]].val[Counters[jx[2]].flag]})

\* C8 as stated: a cycle in which an error occurred delivers the single sample
\* libvirt_up = 0 and no block-stats sample.
C8_NoSamplesOnError ==
    \A c \in Cycles :
        (Done(c) /\ PipelineFailed(c)) => Len(ch[c]) = 1 /\ IsUp(ch[c][1], 0)

\* C8 amended: the block-stats samples sent before the error stay delivered,
\* one for each flag set in the earlier successful BlockStats queries; none is
\* sent after the error; and the cycle ends with libvirt_up = 0 as the one
\* sample that follows them.
C8_EarlierSamplesKept ==
    \A c \in Cycles :
        \A k \in 1 .. Len(calls[c]) :
            PipelineFailure(c, k) =>
                /\ BlockSamples(c) = 1 .. calls[c][k].sent
                /\ calls[c][k].sent = FlagsSetBefore(c, k)
                /\ Len(ch[c]) <= calls[c][k].sent + 1
                /\ Done(c) => /\ Len(ch[c]) = calls[c][k].sent + 1
                              /\ IsUp(ch[c][Len(ch[c])], 0)

\* The second domain fails after the first sent its samples.
C8_Witness ==
    \E c \in Cycles :
        /\ Done(c)
        /\ \E k \in 1 .. Len(calls[c]) : DomainFailure(c, k) /\ calls[c][k].sent >= 9
        /\ Cardinality(CallsOf(c, "GetName")) = 2
        /\ IsUp(ch[c][Len(ch[c])], 0)

\* C9: when NewConnect fails, nothing else is called, no block-stats sample is
\* sent, and Collect ends, without a panic, having sent libvirt_up = 0 alone.
C9_OpenFailure ==
    \A c \in Cycles :
        (\E k \in CallsOf(c, "NewConnect") : Failed(c, k)) =>
            /\ Len(calls[c]) = 1
            /\ pc[c] \in {"Return", "Emit", "Done"}
            /\ BlockSamples(c) = {}
            /\ Len(ch[c]) = IF Done(c) THEN 1 ELSE 0
            /\ Done(c) => IsUp(ch[c][1], 0)

C9_Witness ==
    \E c \in Cycles :
        /\ Done(c)
        /\ CallAt(c, 1, "NewConnect") /\ Failed(c, 1)
        /\ Len(ch[c]) = 1 /\ IsUp(ch[c][1], 0)

\* The domains that the bulk listing returned.
ListedDomains(c) ==
    LET k == CHOOSE k \in CallsOf(c, "ListAllDomains") : TRUE IN calls[c][k].val

\* The descriptor GetXMLDesc gave for handle h, and the statistics BlockStats
\* gave for its device dev.
DocGiven(c, h) ==
    LET k == CHOOSE k \in CallsOn(c, "GetXMLDesc", h) : TRUE IN calls[c][k].val
StatsGiven(c, h, dev) ==
    LET k == CHOOSE k \in CallsOn(c, "BlockStats", h) : calls[c][k].arg = dev
    IN  calls[c][k].val

\* The (domain, disk, counter) triples of the listing whose flag is set.
Reported(c) ==
    {t \in (1 .. Len(ListedDomains(c))) \X (1 .. MaxDisks + 1) \X (1 .. Len(Counters)) :
        LET h == Handle(c, ListedDomains(c)[t[1]])
        IN  /\ t[2] <= Len(DocGiven(c, h).disks)
            /\ StatsGiven(c, h, DocGiven(c, h).disks[t[2]].Target.Device)[Counters[t[3]].flag]}

\* The samples sent are one per flag set of every disk of every listed
\* domain, with the domain's and the disk's labels and the value the counter
\* stands for, and then libvirt_up = 1.
ExactSamples(c) ==
    /\ \A p \in 1 .. Len(ListedDomains(c)) :
          LET h == Handle(c, ListedDomains(c)[p])
          IN  /\ Cardinality(CallsOn(c, "GetName", h)) = 1
              /\ Cardinality(CallsOn(c, "GetXMLDesc", h)) = 1
              /\ \A j \in 1 .. Len(DocGiven(c, h).disks) :
                    LET disk == DocGiven(c, h).disks[j]
                        dev == disk.Target.Device
                    IN  /\ \E k \in CallsOn(c, "BlockStats", h) : calls[c][k].arg = dev
                        /\ \A x \in 1 .. Len(Counters) :
                              LET st == StatsGiven(c, h, dev)
                                  right == {i \in SamplesFor(c, x, NameGiven(c, h), dev) :
                                      /\ ch[c][i].valueType = "counter"
                                      /\ ch[c][i].labels = <<NameGiven(c, h), disk.Source.File, dev>>
                                      /\ ValueIs(ch[c][i].value, st[Counters[x].raw],
                                                 Counters[x].per)}
                              IN  Cardinality(right) = IF st[Counters[x].flag] THEN 1 ELSE 0
    /\ Len(ch[c]) = Cardinality(Reported(c)) + 1
    /\ IsUp(ch[c][Len(ch[c])], 1)

\* C10 as stated: a cycle in which no hypervisor call failed delivers exactly
\* the samples of its domains' disks and libvirt_up = 1.
C10_SamplesWhenNoCallFails ==
    \A c \in Cycles :
        (Done(c) /\ \A k \in 1 .. Len(calls[c]) : ~Failed(c, k)) => ExactSamples(c)

\* C10 amended: a cycle in which no hypervisor call failed and every
\* descriptor parsed delivers exactly the samples of its domains' disks and
\* libvirt_up = 1.
C10_SamplesOfCleanCycle ==
    \A c \in Cycles :
        (/\ Done(c)
         /\ \A k \in 1 .. Len(calls[c]) : ~Failed(c, k) /\ ~Unparsable(c, k))
        => ExactSamples(c)

\* One domain "vm1" with the disk {"/a.img", "vda"} and only RdBytes = 1024 set.
C10_Witness ==
    \E c \in Cycles :
        /\ Done(c)
        /\ \A k \in 1 .. Len(calls[c]) : ~Failed(c, k)
        /\ ch[c] = << [desc |-> "libvirt_block_stats_read_bytes_total",
                       valueType |-> "counter", value |-> <<1024, 1>>,
                       labels |-> <<"vm1", "/a.img", "vda">>, panic |-> FALSE],
                      [desc |-> "libvirt_up", valueType |-> "gauge", value |-> <<1, 1>>,
                       labels |-> <<>>, panic |-> FALSE] >>

\* The BlockStats call that sample i of the channel comes from: the last one
\* made before the sample was sent. The disk that call asked about is the
\* n-th disk of the handle's descriptor when it is the n-th such call.
HasOrigin(c, i) == \E k \in CallsOf(c, "BlockStats") : calls[c][k].sent < i
Origin(c, i) ==
    CHOOSE k \in CallsOf(c, "BlockStats") :
        /\ calls[c][k].sent < i
        /\ \A j \in CallsOf(c, "BlockStats") : j > k => calls[c][j].sent >= i
DiskQueried(c, k) ==
    LET h == calls[c][k].recv
    IN  DocGiven(c, h).disks[Cardinality({j \in CallsOn(c, "BlockStats", h) : j <= k})]

\* The domain CollectDomain was working on when call k was made: the handle
\* of the last GetName before it.
CollectingAt(c, k) ==
    LET g == CHOOSE g \in CallsOf(c, "GetName") :
                 g < k /\ \A j \in CallsOf(c, "GetName") : j < k => j <= g
    IN  calls[c][g].recv

BlockDescs ==
    {libvirtBlockRdBytesDesc, libvirtBlockRdReqDesc, libvirtBlockRdTotalTimesDesc,
     libvirtBlockWrBytesDesc, libvirtBlockWrReqDesc, libvirtBlockWrTotalTimesDesc,
     libvirtBlockFlushReqDesc, libvirtBlockFlushTotalTimesDesc}

\* C11: every block-stats sample has three label values, for the labels
\* domain, source_file, target_device that its descriptor declares in that
\* order: the name GetName gave for the domain being collected, and the
\* source file and the target device of the disk that the BlockStats call
\* it comes from asked about.
C11_LabelsOfOrigin ==
    /\ \A d \in BlockDescs : d.variableLabels = <<"domain", "source_file", "target_device">>
    /\ \A c \in Cycles :
          \A i \in BlockSamples(c) :
             /\ \E d \in BlockDescs : d.fqName = ch[c][i].desc
             /\ ~ch[c][i].panic
             /\ HasOrigin(c, i)
             /\ LET k == Origin(c, i)
                     h == calls[c][k].recv
                     disk == DiskQueried(c, k)
                 IN  /\ ~Failed(c, k)
                     /\ h = CollectingAt(c, k)
                     /\ calls[c][k].arg = disk.Target.Device
                     /\ Len(ch[c][i].labels) = 3
                     /\ ch[c][i].labels[1] = NameGiven(c, h)
                     /\ ch[c][i].labels[2] = disk.Source.File
                     /\ ch[c][i].labels[3] = disk.Target.Device

\* Two domains of two disks each, listed as vm2, vm1: the second disk of vm2
\* (no source file) is reported before the first disk of vm1.
C11_Witness ==
    \E c \in Cycles :
        /\ Done(c)
        /\ \E i, j \in BlockSamples(c) :
              /\ i < j
              /\ ch[c][i].labels = <<"vm2", "", "vdb">>
              /\ ch[c][j].labels = <<"vm1", "/a.img", "vda">>
        /\ \E i \in BlockSamples(c) : ch[c][i].labels = <<"vm1", "", "vdb">>

\* What the hypervisor answered to cycle c, call by call: the queries with
\* their arguments, errors and results, the handles named by their domain.
Answer(r) == [op |-> r.op, id |-> r.recv[2], arg |-> r.arg, err |-> r.err, val |-> r.val]
RECURSIVE Answers(_)
Answers(s) ==
    IF s = <<>> THEN <<>>
    ELSE (IF Head(s).op \in {"Free", "Close"} THEN <<>> ELSE <<Answer(Head(s))>>)
         \o Answers(Tail(s))

\* Every call of cycle c is made on the connection that c opened with its
\* first call or on a handle that this connection gave to c.
OwnCallsOnly(c) ==
    /\ \A k \in 1 .. Len(calls[c]) :
          /\ calls[c][k].recv[1] = c
          /\ (calls[c][k].op = "NewConnect") = (k = 1)
          /\ calls[c][k].op \in {"NewConnect", "ListAllDomains", "ListDomains",
                                 "LookupDomainById", "Close"}
                => calls[c][k].recv = ConnRef(c)
          /\ calls[c][k].op \in {"GetName", "GetXMLDesc", "BlockStats", "Free"}
                => /\ calls[c][k].recv \in Handles
                   /\ acquired[calls[c][k].recv] >= 1
    /\ \A h \in Handles : h[1] = c =>
          freeCount[h] = Cardinality(CallsOn(c, "Free", h))

\* Two cycles that got the same answers stand, at the same place of the
\* code, with the same samples sent and the same error.
SameAnswersSameSamples ==
    \A c, d \in Cycles :
        (pc[c] = pc[d] /\ Answers(calls[c]) = Answers(calls[d]))
            => ch[c] = ch[d] /\ err[c] = err[d] /\ logs[c] = logs[d]

\* C12 as stated: overlapping cycles call only on their own connection and
\* handles, get samples that their own answers decide, and when a cycle is
\* done it has released each handle it acquired, and the connection it
\* opened, exactly once.
C12_CyclesIndependent ==
    /\ \A c \in Cycles : OwnCallsOnly(c)
    /\ SameAnswersSameSamples
    /\ \A c \in Cycles : Done(c) =>
          /\ Opened(c) => Cardinality(CallsOn(c, "Close", ConnRef(c))) = 1
          /\ \A h \in Handles :
                (h[1] = c /\ acquired[h] >= 1) => Cardinality(CallsOn(c, "Free", h)) = 1

\* The part of C12 that does not count the releases.
C12_OwnCallsOwnSamples ==
    /\ \A c \in Cycles : OwnCallsOnly(c)
    /\ SameAnswersSameSamples
    /\ \A c \in Cycles : (Done(c) /\ Opened(c)) =>
          Cardinality(CallsOn(c, "Close", ConnRef(c))) = 1

\* C13: when ListAllDomains failed and ListDomains failed too, CollectFromLibvirt
\* returns the error of ListDomains: no LookupDomainById, GetName, GetXMLDesc
\* or BlockStats is called and no block-stats sample sent, the connection is
\* closed once at return, and the cycle ends with libvirt_up = 0 alone.
C13_BothListingsFail ==
    \A c \in Cycles :
        (/\ \E k \in CallsOf(c, "ListAllDomains") : Failed(c, k)
         /\ \E k \in CallsOf(c, "ListDomains") : Failed(c, k))
        => /\ \A k \in 1 .. Len(calls[c]) :
                 calls[c][k].op \in {"NewConnect", "ListAllDomains", "ListDomains", "Close"}
           /\ err[c] = "ListDomainsError"
           /\ pc[c] \in {"Return", "Emit", "Done"}
           /\ BlockSamples(c) = {}
           /\ pc[c] \in {"Emit", "Done"} =>
                 /\ CallAt(c, Len(calls[c]), "Close")
                 /\ Cardinality(CallsOf(c, "Close")) = 1
           /\ Done(c) => ch[c] = <<MustNewConstMetric(libvirtUpDesc, "gauge", <<0, 1>>, <<>>)>>

\* The bulk listing is not supported and the listing of IDs fails.
C13_Witness ==
    \E c \in Cycles :
        /\ Done(c)
        /\ \E k \in CallsOf(c, "ListAllDomains") : calls[c][k].err = "NoSupport"
        /\ \E k \in CallsOf(c, "ListDomains") : calls[c][k].err = "ListDomainsError"
        /\ Len(calls[c]) = 4
        /\ Len(ch[c]) = 1 /\ IsUp(ch[c][1], 0)
        /\ logs[c] = << <<"Failed to scrape metrics: %s", "ListDomainsError">> >>

\* A cycle in which nothing went wrong but, possibly, the bulk listing (which
\* is what leads to the fallback path): no other call failed and every
\* descriptor parsed.
NoErrors(c) ==
    \A k \in 1 .. Len(calls[c]) :
        /\ Failed(c, k) => calls[c][k].op = "ListAllDomains"
        /\ ~Unparsable(c, k)

\* The domains that enumeration produced, in its order, on either path.
Enumerated(c) ==
    IF \E k \in CallsOf(c, "ListAllDomains") : ~Failed(c, k) THEN ListedDomains(c)
    ELSE IF CallsOf(c, "ListDomains") # {} THEN ListedIds(c)
    ELSE <<>>

\* The calls CollectDomain made, in order: what was asked of which domain.
RECURSIVE DomainCalls(_)
DomainCalls(s) ==
    IF s = <<>> THEN <<>>
    ELSE (IF Head(s).op \in {"GetName", "GetXMLDesc"}
          THEN << <<Head(s).op, Head(s).recv[2], "">> >>
          ELSE IF Head(s).op = "BlockStats"
          THEN << <<Head(s).op, Head(s).recv[2], Head(s).arg>> >>
          ELSE <<>>)
         \o DomainCalls(Tail(s))

\* The calls that are due for the domains of list: for each in turn its
\* name, its descriptor and the statistics of each disk the descriptor
\* declares, in the order it declares them.
RECURSIVE DueCalls(_, _)
DueCalls(c, list) ==
    IF list = <<>> THEN <<>>
    ELSE LET id == Head(list)
             disks == DocGiven(c, Handle(c, id)).disks
         IN  << <<"GetName", id, "">>, <<"GetXMLDesc", id, "">> >>
             \o [j \in 1 .. Len(disks) |-> <<"BlockStats", id, disks[j].Target.Device>>]
             \o DueCalls(c, Tail(list))

\* C14: when CollectFromLibvirt returns from a cycle without errors,
\* CollectDomain has run once on every enumerated domain, in the order of
\* the enumeration, and each run asked for the name, the descriptor and then
\* BlockStats once per disk in the descriptor's order, all of it before the
\* name of the next domain was asked for.
C14_OncePerDomainAndDiskInOrder ==
    \A c \in Cycles :
        (pc[c] \in {"Return", "Emit", "Done"} /\ Opened(c) /\ NoErrors(c)) =>
            /\ \A k \in CallsOf(c, "GetName") \cup CallsOf(c, "GetXMLDesc") :
                  Cardinality(CallsOn(c, calls[c][k].op, calls[c][k].recv)) = 1
            /\ DomainCalls(calls[c]) = DueCalls(c, Enumerated(c))

\* Two domains of two disks each, enumerated as vm2, vm1 on the fallback path.
C14_Witness ==
    \E c \in Cycles :
        /\ Done(c) /\ NoErrors(c)
        /\ \E k \in CallsOf(c, "ListDomains") : calls[c][k].val = <<2, 1>>
        /\ DomainCalls(calls[c]) =
              << <<"GetName", 2, "">>, <<"GetXMLDesc", 2, "">>,
                 <<"BlockStats", 2, "vda">>, <<"BlockStats", 2, "vdb">>,
                 <<"GetName", 1, "">>, <<"GetXMLDesc", 1, "">>,
                 <<"BlockStats", 1, "vda">>, <<"BlockStats", 1, "vdb">> >>

\* The same on the bulk path.
C14_WitnessBulk ==
    \E c \in Cycles :
        /\ Done(c) /\ NoErrors(c)
        /\ \E k \in CallsOf(c, "ListAllDomains") : calls[c][k].val = <<2, 1>>
        /\ Len(DomainCalls(calls[c])) = 8

\* The handles a fallback cycle holds: looked up and not yet freed.
Held(c) ==
    {h \in Handles :
        Cardinality({k \in CallsOf(c, "LookupDomainById") :
                        ~Failed(c, k) /\ Handle(c, calls[c][k].val) = h})
          > Cardinality(CallsOn(c, "Free", h))}

OnFallbackPath(c) == CallsOf(c, "ListDomains") # {}

\* C15: on the fallback path, a handle that LookupDomainById gave is freed by
\* the call that follows the last call of its CollectDomain, whether or not
\* CollectDomain failed: every Free follows a GetName, GetXMLDesc or
\* BlockStats on the same handle, every later LookupDomainById and the Close
\* find all earlier handles freed, no handle is freed twice, and at no moment
\* is more than one handle held (none once CollectFromLibvirt returns).
C15_FallbackFreesAtOnce ==
    \A c \in Cycles :
        OnFallbackPath(c) =>
            /\ Cardinality(Held(c)) <= 1
            /\ Held(c) = IF pc[c] \in {"GetName", "GetXMLDesc", "Unmarshal", "DiskLoop", "Free"}
                         THEN {Handle(c, domain[c])} ELSE {}
            /\ \A f \in CallsOf(c, "Free") :
                  /\ f > 1
                  /\ calls[c][f - 1].op \in {"GetName", "GetXMLDesc", "BlockStats"}
                  /\ calls[c][f - 1].recv = calls[c][f].recv
                  /\ Cardinality(CallsOn(c, "Free", calls[c][f].recv)) = 1
            /\ \A k \in CallsOf(c, "LookupDomainById") :
                  ~Failed(c, k) =>
                     \A j \in CallsOf(c, "LookupDomainById") \cup CallsOf(c, "Close") :
                        j > k =>
                           \E f \in CallsOn(c, "Free", Handle(c, calls[c][k].val)) :
                              k < f /\ f < j

\* Two domains looked up; the CollectDomain of the first succeeds, that of
\* the second fails at BlockStats; both handles are freed.
C15_Witness ==
    \E c \in Cycles :
        /\ Done(c)
        /\ Cardinality({k \in CallsOf(c, "LookupDomainById") : ~Failed(c, k)}) = 2
        /\ Cardinality(CallsOf(c, "Free")) = 2
        /\ \E k \in CallsOf(c, "BlockStats") :
              /\ Failed(c, k)
              /\ CallAt(c, k + 1, "Free")
              /\ CallAt(c, k + 2, "Close")
        /\ \E k \in CallsOf(c, "BlockStats") :
              ~Failed(c, k) /\ CallAt(c, k + 1, "Free") /\ CallAt(c, k + 2, "LookupDomainById")

OnBulkPath(c) == \E k \in CallsOf(c, "ListAllDomains") : ~Failed(c, k)

\* Whenever CollectDomain starts on a domain (its GetName), the handle of
\* every domain it ran on before has been freed in between.
FreedBeforeNextDomain(c) ==
    \A k, g \in CallsOf(c, "GetName") :
        k < g => \E f \in CallsOn(c, "Free", calls[c][k].recv) : k < f /\ f < g

\* C16 as stated: on both paths a handle is freed when its domain is done
\* with, before CollectDomain starts on the next domain.
C16_FreedAsProcessedOnBothPaths ==
    \A c \in Cycles : FreedBeforeNextDomain(c)

\* C16 amended: on the fallback path a handle is freed before CollectDomain
\* starts on the next domain; on the bulk path nothing is freed while the
\* domains are worked on: the Free calls are made together when
\* CollectFromLibvirt returns, as many as handles were listed, after the
\* last call of the last CollectDomain and before the Close.
C16_FreedAsProcessedOrAtReturn ==
    \A c \in Cycles :
        /\ OnFallbackPath(c) => FreedBeforeNextDomain(c)
        /\ OnBulkPath(c) =>
              /\ \A f \in CallsOf(c, "Free") :
                    /\ \A k \in 1 .. Len(calls[c]) :
                          k > f => calls[c][k].op \in {"Free", "Close"}
                    /\ CallAt(c, Len(calls[c]), "Close")
              /\ pc[c] \in {"GetName", "GetXMLDesc", "Unmarshal", "DiskLoop", "BulkLoop",
                            "DeferLoop", "Return"} => CallsOf(c, "Free") = {}
              /\ pc[c] \in {"Emit", "Done"} =>
                    Cardinality(CallsOf(c, "Free")) = Len(ListedDomains(c))

\* Two domains from the bulk listing: both are collected before the first
\* Free, and the cycle ends with Free, Free, Close.
C16_Witness ==
    \E c \in Cycles :
        /\ Done(c) /\ OnBulkPath(c)
        /\ Cardinality(CallsOf(c, "GetName")) = 2
        /\ LET n == Len(calls[c])
           IN  /\ n >= 5
               /\ CallAt(c, n, "Close") /\ CallAt(c, n - 1, "Free") /\ CallAt(c, n - 2, "Free")
               /\ calls[c][n - 3].op = "BlockStats"
               /\ \A f \in CallsOf(c, "Free") : \A g \in CallsOf(c, "GetName") : g < f

\* C17: nothing is called twice in a cycle. NewConnect is the first call and
\* the only one of its kind; ListAllDomains is called at most once;
\* ListDomains at most once and only after ListAllDomains failed;
\* LookupDomainById at most once per ID, for IDs of the list; GetName and
\* GetXMLDesc at most once per handle and BlockStats at most once per handle
\* and device; a call that failed is not made again; and a cycle that failed
\* sends libvirt_up = 0 once.
C17_NoRetry ==
    \A c \in Cycles :
        /\ calls[c] # <<>> => CallsOf(c, "NewConnect") = {1}
        /\ Cardinality(CallsOf(c, "ListAllDomains")) <= 1
        /\ Cardinality(CallsOf(c, "ListDomains")) <= 1
        /\ \A k \in CallsOf(c, "ListDomains") :
              \E j \in CallsOf(c, "ListAllDomains") : j < k /\ Failed(c, j)
        /\ \A k \in CallsOf(c, "LookupDomainById") :
              /\ \E p \in 1 .. Len(ListedIds(c)) : ListedIds(c)[p] = calls[c][k].arg
              /\ \A j \in CallsOf(c, "LookupDomainById") :
                    calls[c][j].arg = calls[c][k].arg => j = k
        /\ \A k \in CallsOf(c, "GetName") \cup CallsOf(c, "GetXMLDesc") :
              CallsOn(c, calls[c][k].op, calls[c][k].recv) = {k}
        /\ \A k \in CallsOf(c, "BlockStats") :
              \A j \in CallsOn(c, "BlockStats", calls[c][k].recv) :
                 calls[c][j].arg = calls[c][k].arg => j = k
        /\ \A k \in 1 .. Len(calls[c]) :
              Failed(c, k) =>
                 \A j \in 1 .. Len(calls[c]) :
                    (/\ j > k
                     /\ calls[c][j].op = calls[c][k].op
                     /\ calls[c][j].recv = calls[c][k].recv)
                    => calls[c][j].arg # calls[c][k].arg
        /\ (Done(c) /\ PipelineFailed(c)) =>
              /\ Cardinality(UpSamples(c)) = 1
              /\ IsUp(ch[c][Len(ch[c])], 0)
              /\ Cardinality({k \in 1 .. Len(calls[c]) : PipelineFailure(c, k)}) = 1

\* The bulk listing fails, the first lookup fails, and the second domain
\* fails at the second disk: each of the three was called once.
C17_Witness ==
    \E c \in Cycles :
        /\ Done(c)
        /\ \E k \in CallsOf(c, "ListAllDomains") : Failed(c, k)
        /\ Cardinality(CallsOf(c, "LookupDomainById")) = 2
        /\ \E k \in CallsOf(c, "LookupDomainById") : Failed(c, k)
        /\ Cardinality(CallsOf(c, "BlockStats")) = 2
        /\ \E k \in CallsOf(c, "BlockStats") : Failed(c, k) /\ calls[c][k].arg = "vdb"
        /\ IsUp(ch[c][Len(ch[c])], 0)

\* The counters that count nanoseconds.
TimeFields == {"RdTotalTimes", "WrTotalTimes", "FlushTotalTimes"}

\* C18: the value of every block-stats sample is made from the raw counter
\* of the BlockStats answer it comes from: a byte or request counter is that
\* number itself, a time counter is that number of nanoseconds divided by
\* 10^9 (1500000000 gives 3/2), never the nanoseconds themselves.
C18_ValuesFromRawCounters ==
    \A c \in Cycles :
        \A i \in BlockSamples(c) :
            /\ HasOrigin(c, i)
            /\ \E x \in 1 .. Len(Counters) : Counters[x].desc = ch[c][i].desc
            /\ LET st == calls[c][Origin(c, i)].val
                   x == CHOOSE x \in 1 .. Len(Counters) : Counters[x].desc = ch[c][i].desc
                   raw == st[Counters[x].raw]
                   v == ch[c][i].value
               IN  /\ ch[c][i].valueType = "counter"
                   /\ st[Counters[x].flag]
                   /\ Counters[x].raw \notin TimeFields => v = <<raw, 1>>
                   /\ Counters[x].raw \in TimeFields =>
                         /\ raw # 0 => v # <<raw, 1>>
                         /\ GCD(v[1], v[2]) = 1
                         /\ ValueIs(v, raw, 1000000000)

\* Every flag set on a busy disk: 4096 bytes read are sent as 4096, 7 read
\* requests as 7, and the times 1500000000, 500000000 and 2000000000 ns as
\* 3/2, 1/2 and 2 seconds.
C18_Witness ==
    \E c \in Cycles :
        /\ Done(c)
        /\ Len(ch[c]) = 9
        /\ \E k \in CallsOf(c, "BlockStats") :
              /\ calls[c][k].val.RdTotalTimes = 1500000000
              /\ calls[c][k].val.FlushTotalTimes = 2000000000
              /\ calls[c][k].val.ErrsSet
        /\ ch[c][1].desc = "libvirt_block_stats_read_bytes_total" /\ ch[c][1].value = <<4096, 1>>
        /\ ch[c][2].desc = "libvirt_block_stats_read_requests_total" /\ ch[c][2].value = <<7, 1>>
        /\ ch[c][3].desc = "libvirt_block_stats_read_seconds_total" /\ ch[c][3].value = <<3, 2>>
        /\ ch[c][6].desc = "libvirt_block_stats_write_seconds_total" /\ ch[c][6].value = <<1, 2>>
        /\ ch[c][8].desc = "libvirt_block_stats_flush_seconds_total" /\ ch[c][8].value = <<2, 1>>

\* C19: in a cycle every Free is called before the Close, nothing is asked
\* of the hypervisor once the connection is closed, and nothing is asked of
\* a handle once Free has been called on it.
C19_ReleaseOrder ==
    \A c \in Cycles :
        /\ \A cl \in CallsOf(c, "Close") :
              /\ \A f \in CallsOf(c, "Free") : f < cl
              /\ \A k \in 1 .. Len(calls[c]) : IsQuery(c, k) => k < cl
              /\ cl = Len(calls[c])
        /\ \A f \in CallsOf(c, "Free") :
              \A k \in 1 .. Len(calls[c]) :
                 (IsQuery(c, k) /\ calls[c][k].recv = calls[c][f].recv) => k < f

\* Two handles of the bulk listing freed at return, before the Close.
C19_Witness ==
    \E c \in Cycles :
        /\ Done(c) /\ OnBulkPath(c)
        /\ Cardinality(CallsOf(c, "Free")) = 2
        /\ Cardinality(CallsOf(c, "BlockStats")) = 4
        /\ CallAt(c, Len(calls[c]), "Close")
        /\ \A f \in CallsOf(c, "Free") : f >= Len(calls[c]) - 2

\* Two handles looked up and freed one after the other, then the Close.
C19_WitnessFallback ==
    \E c \in Cycles :
        /\ Done(c) /\ OnFallbackPath(c)
        /\ Cardinality(CallsOf(c, "Free")) = 2
        /\ CallAt(c, Len(calls[c]), "Close")
        /\ \E f \in CallsOf(c, "Free") : CallAt(c, f + 1, "LookupDomainById")

\* libvirt_up is sent once, as the last sample, after every call of the
\* cycle, the Close of an opened connection among them.
UpLastAfterClose(c) ==
    /\ Cardinality(UpSamples(c)) <= 1
    /\ UpSamples(c) # {} =>
          /\ Done(c)
          /\ UpSamples(c) = {Len(ch[c])}
          /\ \A k \in 1 .. Len(calls[c]) : calls[c][k].sent < Len(ch[c])
          /\ Opened(c) => CallAt(c, Len(calls[c]), "Close")
    /\ Done(c) => UpSamples(c) # {}

\* C20 as stated: libvirt_up is the last sample, sent after every call of
\* the cycle, when the connection has been closed and every handle the cycle
\* acquired has been freed.
C20_UpAfterEverythingReleased ==
    \A c \in Cycles :
        /\ UpLastAfterClose(c)
        /\ UpSamples(c) # {} =>
              \A h \in Handles :
                 (h[1] = c /\ acquired[h] >= 1) => CallsOn(c, "Free", h) # {}

\* The part of C20 that does not say which handles were freed.
C20_UpLastAfterCloseAndFrees ==
    \A c \in Cycles :
        /\ UpLastAfterClose(c)
        /\ UpSamples(c) # {} /\ OnBulkPath(c) =>
              Cardinality(CallsOf(c, "Free")) = Len(ListedDomains(c))

====
